---- MODULE Spec2Model ----
(***************************************************************************)
(* A model of the chess rules engine: the board state (pieces, turn,       *)
(* castling rights, en-passant target), the legality oracle                *)
(* (move_pseudo_legal, is_pos_attacked, validate_castling, move_legal),    *)
(* move application (make_move) and legal-move enumeration.                *)
(*                                                                         *)
(* Option<T> is modelled as a sequence of length 0 (None) or 1 (Some(x)). *)
(* Result<(), String> is modelled by the strings "Ok" and "Err".           *)
(* The legality predicates return "true" or "false"; the third value       *)
(* "overflow" stands for a call chain that re-enters is_pos_attacked with  *)
(* arguments that are already being evaluated on the same board, which in  *)
(* the program is an unbounded recursion ending in a stack overflow.       *)
(***************************************************************************)
EXTENDS Integers, Sequences, FiniteSets, Bags, TLC

BOARD_WIDTH == 8
BOARD_HEIGHT == 8

None == << >>
Some(x) == << x >>

abs(x) == IF x < 0 THEN -x ELSE x
signum(x) == IF x > 0 THEN 1 ELSE IF x < 0 THEN -1 ELSE 0
max(x, y) == IF x >= y THEN x ELSE y

(***************************************************************************)
(* Geometry: Position, Offset                                              *)
(***************************************************************************)
Position(f, r) == [file |-> f, rank |-> r]
Offset(f, r) == [file |-> f, rank |-> r]

is_on_board(pos) ==
    IF ~((pos.file >= 0) /\ (pos.rank >= 0))
    THEN FALSE
    ELSE (pos.file < BOARD_WIDTH) /\ (pos.rank < BOARD_HEIGHT)

\* Position::to_index, on-board positions only (the callers test is_on_board)
to_index(pos) == pos.rank * BOARD_WIDTH + pos.file

from_index(index) == Position(index % BOARD_WIDTH, index \div BOARD_WIDTH)

\* impl Add<Offset> for Position
Add(pos, off) == Position(pos.file + off.file, pos.rank + off.rank)

\* impl Mul<i8> for Offset
Mul(off, scalar) == Offset(off.file * scalar, off.rank * scalar)

(***************************************************************************)
(* Pieces, moves and move shapes                                           *)
(***************************************************************************)
PieceType == {"Pawn", "Bishop", "Knight", "Rook", "Queen", "King"}
PieceColor == {"White", "Black"}
Piece(t, c) == [type_ |-> t, color |-> c]

Move(from, to) == [from |-> from, to |-> to]

ShapeData(fwd, bwd, d) == [forward_only |-> fwd, backward_only |-> bwd, distance |-> d]
Straight(data) == [kind |-> "Straight", data |-> data]
Diagonal(data) == [kind |-> "Diagonal", data |-> data]
KnightShape == [kind |-> "Knight", data |-> ShapeData(FALSE, FALSE, 0)]

\* MoveShape::from_positions(..).ok(): None where the code returns Err
shape(m) ==
    IF m.from = m.to THEN None
    ELSE
      LET delta_file == abs(m.to.file - m.from.file)
          delta_rank == abs(m.to.rank - m.from.rank)
          distance == max(delta_file, delta_rank)
          moving_forward == m.to.rank > m.from.rank
          moving_backward == m.to.rank < m.from.rank
      IN  IF (delta_file = 2 /\ delta_rank = 1) \/ (delta_file = 1 /\ delta_rank = 2)
          THEN Some(KnightShape)
          ELSE IF delta_file * delta_rank = 0
          THEN Some(Straight(ShapeData(moving_forward, moving_backward, distance)))
          ELSE IF delta_file = delta_rank
          THEN Some(Diagonal(ShapeData(moving_forward, moving_backward, distance)))
          ELSE None

move_is_on_board(m) == is_on_board(m.from) /\ is_on_board(m.to)

shape_allowed(piece, sh) ==
    LET data == sh.data IN
    CASE piece.type_ = "Rook" /\ sh.kind = "Straight" -> TRUE
      [] piece.type_ = "Bishop" /\ sh.kind = "Diagonal" -> TRUE
      [] piece.type_ = "Queen" /\ sh.kind = "Straight" -> TRUE
      [] piece.type_ = "Queen" /\ sh.kind = "Diagonal" -> TRUE
      [] piece.type_ = "Knight" /\ sh.kind = "Knight" -> TRUE
      [] piece.type_ = "King" /\ sh.kind = "Straight" ->
            data.distance = 1 \/ data.distance = 2
      [] piece.type_ = "King" /\ sh.kind = "Diagonal" -> data.distance = 1
      [] piece.type_ = "Pawn" /\ sh.kind = "Straight" ->
            IF piece.color = "White"
            THEN data.forward_only /\ (data.distance = 1 \/ data.distance = 2)
            ELSE data.backward_only /\ (data.distance = 1 \/ data.distance = 2)
      [] piece.type_ = "Pawn" /\ sh.kind = "Diagonal" ->
            IF piece.color = "White"
            THEN data.forward_only /\ ~data.backward_only /\ data.distance = 1
            ELSE ~data.forward_only /\ data.backward_only /\ data.distance = 1
      [] OTHER -> FALSE

\* pawn rules without the two-square advance from the starting rank
validate_pawn_rules_single_step(piece, m, is_capture) ==
    LET s == shape(m) IN
    IF s = None THEN FALSE
    ELSE
      LET sh == s[1] IN
      CASE sh.kind = "Straight" /\ ~is_capture -> sh.data.distance = 1
        [] sh.kind = "Diagonal" /\ is_capture -> sh.data.distance = 1
        [] OTHER -> FALSE

validate_pawn_rules(piece, m, is_capture) ==
    LET s == shape(m) IN
    IF s = None THEN FALSE
    ELSE
      LET sh == s[1] IN
      CASE sh.kind = "Straight" /\ ~is_capture ->
              IF sh.data.distance = 2
              THEN LET starting_rank == IF piece.color = "White" THEN 1 ELSE 6
                   IN  m.from.rank = starting_rank
              ELSE sh.data.distance = 1
        [] sh.kind = "Diagonal" /\ is_capture -> sh.data.distance = 1
        [] OTHER -> FALSE

\* Move::path: None where the code returns Err
RECURSIVE path_loop(_, _, _, _)
path_loop(current, to, step, positions) ==
    IF ~is_on_board(current) THEN positions
    ELSE IF current = to THEN Append(positions, current)
    ELSE path_loop(Add(current, step), to, step, Append(positions, current))

path(m) ==
    IF m.from = m.to THEN Some(<< >>)
    ELSE
      LET s == shape(m) IN
      IF s = None THEN None
      ELSE IF s[1].kind = "Knight" THEN Some(<< m.to >>)
      ELSE
        LET delta_file == m.to.file - m.from.file
            delta_rank == m.to.rank - m.from.rank
            step == Offset(signum(delta_file), signum(delta_rank))
        IN  Some(path_loop(Add(m.from, step), m.to, step, << >>))

(***************************************************************************)
(* CastlingRights                                                          *)
(***************************************************************************)
CastlingRights(wk, wq, bk, bq) ==
    [white_kingside |-> wk, white_queenside |-> wq,
     black_kingside |-> bk, black_queenside |-> bq]

CastlingRights_new == CastlingRights(TRUE, TRUE, TRUE, TRUE)

can_castle(rights, color, kingside) ==
    CASE color = "White" /\ kingside -> rights.white_kingside
      [] color = "White" /\ ~kingside -> rights.white_queenside
      [] color = "Black" /\ kingside -> rights.black_kingside
      [] color = "Black" /\ ~kingside -> rights.black_queenside

\* a king's departure that clears the kingside right only
disable_king_castling_kingside(rights, color) ==
    IF color = "White"
    THEN [rights EXCEPT !.white_kingside = FALSE]
    ELSE [rights EXCEPT !.black_kingside = FALSE]

disable_king_castling(rights, color) ==
    IF color = "White"
    THEN [rights EXCEPT !.white_kingside = FALSE, !.white_queenside = FALSE]
    ELSE [rights EXCEPT !.black_kingside = FALSE, !.black_queenside = FALSE]

disable_rook_castling(rights, color, kingside) ==
    CASE color = "White" /\ kingside -> [rights EXCEPT !.white_kingside = FALSE]
      [] color = "White" /\ ~kingside -> [rights EXCEPT !.white_queenside = FALSE]
      [] color = "Black" /\ kingside -> [rights EXCEPT !.black_kingside = FALSE]
      [] color = "Black" /\ ~kingside -> [rights EXCEPT !.black_queenside = FALSE]

(***************************************************************************)
(* Board                                                                   *)
(***************************************************************************)
Indices == 0 .. (BOARD_WIDTH * BOARD_HEIGHT - 1)

Board(pieces, move_turn, castling_rights, en_passant_target) ==
    [pieces |-> pieces, move_turn |-> move_turn,
     castling_rights |-> castling_rights, en_passant_target |-> en_passant_target]

Board_empty == Board([i \in Indices |-> None], "White", CastlingRights_new, None)

opposite(color) == IF color = "White" THEN "Black" ELSE "White"

piece_at_pos(b, pos) ==
    IF ~is_on_board(pos) THEN None ELSE b.pieces[to_index(pos)]

\* Board::cast_ray: ok = FALSE where the code returns Err
RECURSIVE cast_ray_loop(_, _, _, _)
cast_ray_loop(b, current, direction, last_valid) ==
    IF is_on_board(current)
    THEN LET p == piece_at_pos(b, current) IN
         IF p # None
         THEN [ok |-> TRUE, pos |-> current, piece |-> p]
         ELSE cast_ray_loop(b, Add(current, direction), direction, Some(current))
    ELSE IF last_valid # None
         THEN [ok |-> TRUE, pos |-> last_valid[1], piece |-> None]
         ELSE [ok |-> FALSE, pos |-> current, piece |-> None]

cast_ray(b, start_pos, direction) ==
    cast_ray_loop(b, Add(start_pos, direction), direction, None)

knight_offsets ==
    << Offset(2, 1), Offset(2, -1), Offset(-2, 1), Offset(-2, -1),
       Offset(1, 2), Offset(1, -2), Offset(-1, 2), Offset(-1, -2) >>

ray_directions ==
    << Offset(1, 0), Offset(-1, 0), Offset(0, 1), Offset(0, -1),
       Offset(1, 1), Offset(1, -1), Offset(-1, 1), Offset(-1, -1) >>

RECURSIVE find_king_from(_, _, _)
find_king_from(b, color, index) ==
    IF index >= BOARD_WIDTH * BOARD_HEIGHT THEN None
    ELSE IF b.pieces[index] # None /\ b.pieces[index][1].color = color
            /\ b.pieces[index][1].type_ = "King"
    THEN Some(from_index(index))
    ELSE find_king_from(b, color, index + 1)

\* Board::find_king: the first king of the colour, in index order
find_king(b, color) == find_king_from(b, color, 0)

is_move_en_passant(b, m) ==
    IF b.en_passant_target = None THEN FALSE
    ELSE IF m.to # b.en_passant_target[1] THEN FALSE
    ELSE
      LET p == piece_at_pos(b, m.from) IN
      IF p = None THEN FALSE
      ELSE IF p[1].type_ # "Pawn" THEN FALSE
      ELSE
        LET s == shape(m) IN
        IF s = None THEN FALSE
        ELSE CASE s[1].kind = "Diagonal" /\ s[1].data.forward_only
                    /\ s[1].data.distance = 1 /\ p[1].color = "White" -> TRUE
               [] s[1].kind = "Diagonal" /\ s[1].data.backward_only
                    /\ s[1].data.distance = 1 /\ p[1].color = "Black" -> TRUE
               [] OTHER -> FALSE

\* a capture test that takes every move for a capture
is_move_capture_always(b, m) == TRUE

is_move_capture(b, m) ==
    IF is_move_en_passant(b, m) THEN TRUE
    ELSE
      LET moving_piece == piece_at_pos(b, m.from)
          target_piece == piece_at_pos(b, m.to)
      IN  IF moving_piece = None THEN FALSE
          ELSE IF target_piece = None THEN FALSE
          ELSE moving_piece[1].color # target_piece[1].color

\* a path walk that looks at no square on the way
path_clear_loop_unseen(b, current, to, step) == TRUE

RECURSIVE path_clear_loop(_, _, _, _)
path_clear_loop(b, current, to, step) ==
    IF current = to THEN TRUE
    ELSE IF piece_at_pos(b, current) # None THEN FALSE
    ELSE path_clear_loop(b, Add(current, step), to, step)

path_clear(b, m) ==
    LET moving_piece == piece_at_pos(b, m.from)
        s == shape(m)
    IN  IF moving_piece = None THEN FALSE
        ELSE IF s = None THEN FALSE
        ELSE
          LET step == Offset(signum(m.to.file - m.from.file),
                             signum(m.to.rank - m.from.rank))
              clear == IF s[1].kind = "Knight" THEN TRUE
                       ELSE path_clear_loop(b, Add(m.from, step), m.to, step)
              target_piece == piece_at_pos(b, m.to)
          IN  IF ~clear THEN FALSE
              ELSE IF target_piece # None
                   THEN target_piece[1].color # moving_piece[1].color
                   ELSE TRUE

\* Board::get_castling: None, Some("Kingside") or Some("Queenside")
get_castling(b, m) ==
    LET moving_piece == piece_at_pos(b, m.from)
        s == shape(m)
    IN  IF moving_piece = None THEN None
        ELSE IF moving_piece[1].type_ # "King" THEN None
        ELSE IF s = None THEN None
        ELSE IF s[1].kind = "Straight" /\ s[1].data.distance = 2
             THEN IF m.to.file > m.from.file
                  THEN Some("Kingside")
                  ELSE Some("Queenside")
             ELSE None

(***************************************************************************)
(* The legality oracle.  move_pseudo_legal, validate_castling and          *)
(* is_pos_attacked call one another; `stack` is the set of                 *)
(* (square, colour) arguments of the is_pos_attacked calls in progress.    *)
(***************************************************************************)
not3(r) == IF r = "true" THEN "false" ELSE IF r = "false" THEN "true" ELSE r

RECURSIVE move_pseudo_legal(_, _, _)
RECURSIVE validate_castling(_, _, _)
RECURSIVE is_pos_attacked(_, _, _, _)
RECURSIVE any_pseudo_legal(_, _, _, _)
RECURSIVE all_not_attacked(_, _, _, _, _)

\* one step of Iterator::any: stop at the first element that is not "false"
any_step(r, b, moves, i, stack) ==
    IF r = "false" THEN any_pseudo_legal(b, moves, i + 1, stack) ELSE r

\* .any(|(move_, _)| self.move_pseudo_legal(move_)), left to right
any_pseudo_legal(b, moves, i, stack) ==
    IF i > Len(moves) THEN "false"
    ELSE any_step(move_pseudo_legal(b, moves[i], stack), b, moves, i, stack)

\* one step of Iterator::all: stop at the first square that is attacked
all_step(r, b, positions, i, attacking_color, stack) ==
    IF r = "false"
    THEN all_not_attacked(b, positions, i + 1, attacking_color, stack)
    ELSE not3(r)

\* .all(|pos| !self.is_pos_attacked(pos, attacking_color)), left to right
all_not_attacked(b, positions, i, attacking_color, stack) ==
    IF i > Len(positions) THEN "true"
    ELSE all_step(is_pos_attacked(b, positions[i], attacking_color, stack),
                  b, positions, i, attacking_color, stack)

\* the (move, piece) pairs is_pos_attacked collects: the occupied knight-offset
\* squares, then the first occupant of each ray
map_knight(b, square_pos, knights) ==
    [i \in 1..Len(knights) |->
        [move |-> Move(knights[i], square_pos), piece |-> piece_at_pos(b, knights[i])[1]]]

map_hits(square_pos, hits) ==
    [i \in 1..Len(hits) |->
        [move |-> Move(hits[i].pos, square_pos), piece |-> hits[i].piece[1]]]

moves_and_pieces(b, square_pos) ==
    LET Occupied(pos) == piece_at_pos(b, pos) # None
        Hit(r) == r.ok /\ r.piece # None
    IN  map_knight(b, square_pos,
                   SelectSeq([i \in 1..Len(knight_offsets) |->
                                 Add(square_pos, knight_offsets[i])], Occupied))
        \o map_hits(square_pos,
                    SelectSeq([i \in 1..Len(ray_directions) |->
                                  cast_ray(b, square_pos, ray_directions[i])], Hit))

moves_of(filtered) == [i \in 1..Len(filtered) |-> filtered[i].move]

is_pos_attacked(b, square_pos, attacking_color, stack) ==
    IF << square_pos, attacking_color >> \in stack THEN "overflow"
    ELSE
      LET Attacking(mp) == mp.piece.color = attacking_color
      IN  any_pseudo_legal(b,
                           moves_of(SelectSeq(moves_and_pieces(b, square_pos), Attacking)),
                           1, stack \cup {<< square_pos, attacking_color >>})

validate_castling(b, m, stack) ==
    LET moving_piece == piece_at_pos(b, m.from)
        castling_side == get_castling(b, m)
    IN  IF moving_piece = None THEN "false"
        ELSE IF castling_side = None THEN "false"
        ELSE
          LET is_kingside == castling_side[1] = "Kingside"
              rook_file == IF is_kingside THEN 7 ELSE 0
              rook_pos == Position(rook_file, m.from.rank)
              direction == IF is_kingside THEN Offset(-1, 0) ELSE Offset(1, 0)
              ray == cast_ray(b, rook_pos, direction)
              attacking_color == opposite(moving_piece[1].color)
              king_direction == IF is_kingside THEN Offset(1, 0) ELSE Offset(-1, 0)
              positions_to_check ==
                  << m.from,
                     Add(m.from, Mul(king_direction, 1)),
                     Add(m.from, Mul(king_direction, 2)) >>
          IN  IF ~can_castle(b.castling_rights, moving_piece[1].color, is_kingside)
              THEN "false"
              ELSE IF ~(ray.ok /\ ray.piece # None /\ ray.piece[1].type_ = "King")
              THEN "false"
              ELSE all_not_attacked(b, positions_to_check, 1, attacking_color, stack)

move_pseudo_legal(b, m, stack) ==
    IF ~move_is_on_board(m) THEN "false"
    ELSE
      LET moving_piece == piece_at_pos(b, m.from)
          s == shape(m)
      IN  IF moving_piece = None THEN "false"
          ELSE IF s = None THEN "false"
          ELSE IF ~shape_allowed(moving_piece[1], s[1]) THEN "false"
          ELSE IF moving_piece[1].type_ = "Pawn"
                  /\ ~validate_pawn_rules(moving_piece[1], m, is_move_capture(b, m))
          THEN "false"
          ELSE IF moving_piece[1].type_ = "King" /\ get_castling(b, m) # None
          THEN validate_castling(b, m, stack)
          ELSE IF path_clear(b, m) THEN "true" ELSE "false"

is_in_check(b, color) ==
    LET king_pos == find_king(b, color) IN
    IF king_pos = None THEN "false"
    ELSE is_pos_attacked(b, king_pos[1], opposite(color), {})

(***************************************************************************)
(* State mutation                                                          *)
(***************************************************************************)
\* a set that takes the last rank for off the board (rank < BOARD_HEIGHT - 1)
set_short(pieces, pos, piece) ==
    IF ~is_on_board(pos) \/ pos.rank = BOARD_HEIGHT - 1
    THEN [pieces |-> pieces, res |-> "Err"]
    ELSE [pieces |-> [pieces EXCEPT ![to_index(pos)] = piece], res |-> "Ok"]

\* Board::set on the piece array: res = "Err" when to_index fails
set(pieces, pos, piece) ==
    IF ~is_on_board(pos)
    THEN [pieces |-> pieces, res |-> "Err"]
    ELSE [pieces |-> [pieces EXCEPT ![to_index(pos)] = piece], res |-> "Ok"]

move_piece(pieces, from, to) ==
    LET piece == IF is_on_board(from) THEN pieces[to_index(from)] ELSE None
        r1 == set(pieces, to, piece)
    IN  IF r1.res = "Err" THEN r1 ELSE set(r1.pieces, from, None)

\* an update that looks at the source square only: a rook captured on its
\* home corner keeps its side's right
update_castling_rights_from_only(rights, m) ==
    CASE m.from = Position(4, 0) -> disable_king_castling(rights, "White")
      [] m.from = Position(4, 7) -> disable_king_castling(rights, "Black")
      [] m.from = Position(0, 0) -> disable_rook_castling(rights, "White", FALSE)
      [] m.from = Position(7, 0) -> disable_rook_castling(rights, "White", TRUE)
      [] m.from = Position(0, 7) -> disable_rook_castling(rights, "Black", FALSE)
      [] m.from = Position(7, 7) -> disable_rook_castling(rights, "Black", TRUE)
      [] OTHER -> rights

update_castling_rights_for_move(rights, m) ==
    LET r1 == CASE m.from = Position(4, 0) -> disable_king_castling(rights, "White")
                [] m.from = Position(4, 7) -> disable_king_castling(rights, "Black")
                [] m.from = Position(0, 0) -> disable_rook_castling(rights, "White", FALSE)
                [] m.from = Position(7, 0) -> disable_rook_castling(rights, "White", TRUE)
                [] m.from = Position(0, 7) -> disable_rook_castling(rights, "Black", FALSE)
                [] m.from = Position(7, 7) -> disable_rook_castling(rights, "Black", TRUE)
                [] OTHER -> rights
    IN  CASE m.to = Position(0, 0) -> disable_rook_castling(r1, "White", FALSE)
          [] m.to = Position(7, 0) -> disable_rook_castling(r1, "White", TRUE)
          [] m.to = Position(0, 7) -> disable_rook_castling(r1, "Black", FALSE)
          [] m.to = Position(7, 7) -> disable_rook_castling(r1, "Black", TRUE)
          [] OTHER -> r1

\* an update that puts the target one rank above the source, whatever the
\* pawn's direction
update_en_passant_target_above(b, m) ==
    LET s == shape(m)
        p == piece_at_pos(b, m.to)
    IN  IF ~(s # None /\ s[1].kind = "Straight" /\ s[1].data.distance = 2)
        THEN None
        ELSE IF ~(p # None /\ p[1].type_ = "Pawn")
        THEN None
        ELSE Some(Position(m.to.file, m.from.rank + 1))

\* the new en-passant target, computed on the board after the piece has moved
update_en_passant_target(b, m) ==
    LET s == shape(m)
        p == piece_at_pos(b, m.to)
    IN  IF ~(s # None /\ s[1].kind = "Straight" /\ s[1].data.distance = 2)
        THEN None
        ELSE IF ~(p # None /\ p[1].type_ = "Pawn")
        THEN None
        ELSE LET target_rank == (m.from.rank + m.to.rank) \div 2
             IN  Some(Position(m.to.file, target_rank))

\* Board::make_move: the board it leaves behind and the Result it returns
\* make_move, third part: the updates that follow the relocation of the piece
make_move_update(b, m) ==
    [board |->
        [pieces |-> b.pieces,
         move_turn |-> opposite(b.move_turn),
         castling_rights |-> update_castling_rights_for_move(b.castling_rights, m),
         en_passant_target |-> update_en_passant_target(b, m)],
     res |-> "Ok"]

\* the `?` after a step of make_move: r is the step's result on board b
try(b, r) == [board |-> [b EXCEPT !.pieces = r.pieces], res |-> r.res]

make_move_moved(m, t) ==
    IF t.res = "Err" THEN t ELSE make_move_update(t.board, m)

\* make_move, second part: the en-passant capture, then the piece itself
make_move_captured(m, t) ==
    IF t.res = "Err" THEN t
    ELSE make_move_moved(m, try(t.board, move_piece(t.board.pieces, m.from, m.to)))

\* an en-passant capture that empties the square behind the target instead
\* of the square beside it
make_move_rook_moved_behind(m, t) ==
    IF t.res = "Err" THEN t
    ELSE make_move_captured(m,
            IF is_move_en_passant(t.board, m)
            THEN try(t.board,
                     set(t.board.pieces,
                         Position(m.to.file, m.to.rank + (m.to.rank - m.from.rank)), None))
            ELSE t)

make_move_rook_moved(m, t) ==
    IF t.res = "Err" THEN t
    ELSE make_move_captured(m,
            IF is_move_en_passant(t.board, m)
            THEN try(t.board, set(t.board.pieces, Position(m.to.file, m.from.rank), None))
            ELSE t)

\* the rook's move of a castling: (rook_from_file, rook_to_file)
rook_files(castling_side) ==
    IF castling_side = Some("Kingside") THEN << 7, 5 >> ELSE << 0, 3 >>

make_move_rook(b, m, castling_side) ==
    IF castling_side # None
    THEN try(b, move_piece(b.pieces,
                           Position(rook_files(castling_side)[1], m.from.rank),
                           Position(rook_files(castling_side)[2], m.from.rank)))
    ELSE [board |-> b, res |-> "Ok"]

\* Board::make_move: the board it leaves behind and the Result it returns
make_move(b, m) == make_move_rook_moved(m, make_move_rook(b, m, get_castling(b, m)))

\* move_legal after make_move on the copy: t is the copy and make_move's Result
move_legal_applied(b, t) ==
    IF t.res = "Err" THEN "false" ELSE not3(is_in_check(t.board, b.move_turn))

\* a move_legal that applies the move without asking move_pseudo_legal first
move_legal_checked_unasked(b, m, pl) == move_legal_applied(b, make_move(b, m))

move_legal_checked(b, m, pl) ==
    IF pl # "true" THEN pl ELSE move_legal_applied(b, make_move(b, m))

move_legal(b, m) == move_legal_checked(b, m, move_pseudo_legal(b, m, {}))

\* Board::legal_moves: the destinations, in the order the code yields them
RECURSIVE flatten(_, _)
flatten(seqs, i) == IF i > Len(seqs) THEN << >> ELSE seqs[i] \o flatten(seqs, i + 1)

knight_moves(pos) ==
    [i \in 1..Len(knight_offsets) |-> Move(pos, Add(pos, knight_offsets[i]))]

\* .map(|(hit_pos, _piece)| Move::new(pos, hit_pos)).filter_map(|move_| move_.path().ok())
paths_to(pos, hits) == [i \in 1..Len(hits) |-> path(Move(pos, hits[i].pos))]
unwrap_all(paths) == [i \in 1..Len(paths) |-> paths[i][1]]
moves_to(pos, targets) == [i \in 1..Len(targets) |-> Move(pos, targets[i])]

sliding_moves(b, pos) ==
    LET RayOk(r) == r.ok
        PathOk(q) == q # None
    IN  moves_to(pos,
          flatten(unwrap_all(
            SelectSeq(paths_to(pos,
                        SelectSeq([i \in 1..Len(ray_directions) |->
                                      cast_ray(b, pos, ray_directions[i])], RayOk)),
                      PathOk)), 1))

destinations(moves) == [i \in 1..Len(moves) |-> moves[i].to]

legal_moves(b, pos) ==
    IF piece_at_pos(b, pos) = None THEN << >>
    ELSE
      LET Legal(m) == move_legal(b, m) = "true"
      IN  destinations(SelectSeq(knight_moves(pos) \o sliding_moves(b, pos), Legal))

(***************************************************************************)
(* Board::from_fen.  A FEN string is given by its fields: the piece        *)
(* placement as the sequence of its '/'-separated ranks, each the sequence *)
(* of its characters; the active colour; the set of characters of the      *)
(* castling field; the en-passant field, "-" or its two characters.        *)
(***************************************************************************)
fen_digit == ("1" :> 1) @@ ("2" :> 2) @@ ("3" :> 3) @@ ("4" :> 4) @@
             ("5" :> 5) @@ ("6" :> 6) @@ ("7" :> 7) @@ ("8" :> 8) @@
             ("0" :> 0) @@ ("9" :> 9)

fen_piece ==
    ("P" :> Piece("Pawn", "White")) @@ ("N" :> Piece("Knight", "White")) @@
    ("B" :> Piece("Bishop", "White")) @@ ("R" :> Piece("Rook", "White")) @@
    ("Q" :> Piece("Queen", "White")) @@ ("K" :> Piece("King", "White")) @@
    ("p" :> Piece("Pawn", "Black")) @@ ("n" :> Piece("Knight", "Black")) @@
    ("b" :> Piece("Bishop", "Black")) @@ ("r" :> Piece("Rook", "Black")) @@
    ("q" :> Piece("Queen", "Black")) @@ ("k" :> Piece("King", "Black"))

fen_file == ("a" :> 0) @@ ("b" :> 1) @@ ("c" :> 2) @@ ("d" :> 3) @@
            ("e" :> 4) @@ ("f" :> 5) @@ ("g" :> 6) @@ ("h" :> 7)

expand_digit(c) ==
    IF c \in DOMAIN fen_digit THEN [i \in 1..fen_digit[c] |-> "."] ELSE << c >>

RECURSIVE expand_rank(_, _)
expand_rank(rank, i) ==
    IF i > Len(rank) THEN << >> ELSE expand_digit(rank[i]) \o expand_rank(rank, i + 1)

\* ranks.iter().rev().flat_map(chars).flat_map(expand_digit)
RECURSIVE expand_ranks(_, _)
expand_ranks(ranks, i) ==
    IF i < 1 THEN << >> ELSE expand_rank(ranks[i], 1) \o expand_ranks(ranks, i - 1)

from_fen(placement, active_color, castling, en_passant) ==
    LET chars == expand_ranks(placement, Len(placement))
        valid == \A i \in 1..Len(chars) : chars[i] = "." \/ chars[i] \in DOMAIN fen_piece
        pieces == [i \in Indices |->
                      IF chars[i + 1] = "." THEN None ELSE Some(fen_piece[chars[i + 1]])]
        known == Len(en_passant) = 2 /\ en_passant[1] \in DOMAIN fen_file
                     /\ en_passant[2] \in DOMAIN fen_digit
        target == IF en_passant = << "-" >> \/ ~known THEN None
                  ELSE Some(Position(fen_file[en_passant[1]], fen_digit[en_passant[2]] - 1))
    IN  IF Len(placement) # 8 THEN None
        ELSE IF ~valid THEN None
        ELSE IF Len(chars) # BOARD_WIDTH * BOARD_HEIGHT THEN None
        ELSE IF active_color \notin {"w", "b"} THEN None
        ELSE IF en_passant # << "-" >> /\ ~known THEN None
        ELSE IF target # None /\ ~is_on_board(target[1]) THEN None
        ELSE Some(Board(pieces,
                        IF active_color = "w" THEN "White" ELSE "Black",
                        CastlingRights("K" \in castling, "Q" \in castling,
                                       "k" \in castling, "q" \in castling),
                        target))

R8 == << "8" >>

starting_position ==
    from_fen(<< << "r","n","b","q","k","b","n","r" >>,
                << "p","p","p","p","p","p","p","p" >>, R8, R8, R8, R8,
                << "P","P","P","P","P","P","P","P" >>,
                << "R","N","B","Q","K","B","N","R" >> >>,
             "w", {"K", "Q", "k", "q"}, << "-" >>)[1]

\* Board::all_legal_moves: legal_moves(pos) over the squares of the side to
\* move, in index order
all_legal_moves_from(b, index) ==
    IF b.pieces[index] # None /\ b.pieces[index][1].color = b.move_turn
    THEN moves_to(from_index(index), legal_moves(b, from_index(index)))
    ELSE << >>

all_legal_moves(b) ==
    flatten([i \in 1..(BOARD_WIDTH * BOARD_HEIGHT) |-> all_legal_moves_from(b, i - 1)], 1)

\* perft of lib.rs
RECURSIVE sum(_, _)
sum(counts, i) == IF i > Len(counts) THEN 0 ELSE counts[i] + sum(counts, i + 1)

RECURSIVE perft(_, _)
perft_moves(b, moves, depth) ==
    IF depth = 1 THEN Len(moves)
    ELSE sum([i \in 1..Len(moves) |-> perft(make_move(b, moves[i]).board, depth - 1)], 1)

perft(b, depth) ==
    IF depth = 0 THEN 1 ELSE perft_moves(b, all_legal_moves(b), depth)

(***************************************************************************)
(* Positions loaded through from_fen                                       *)
(***************************************************************************)
Fen(placement, active_color, castling, en_passant) ==
    from_fen(placement, active_color, castling, en_passant)[1]

\* 8/2p5/3p4/KP5r/1R3p1k/8/4P1P1/8 w - -  (lib.rs test_perft_positions)
Pos3 ==
    Fen(<< R8, << "2","p","5" >>, << "3","p","4" >>, << "K","P","5","r" >>,
           << "1","R","3","p","1","k" >>, R8, << "4","P","1","P","1" >>, R8 >>,
        "w", {}, << "-" >>)

\* 8/8/8/1Rn5/8/8/8/8 w - -  (test_is_pseudo_legal)
BoardPseudo ==
    Fen(<< R8, R8, R8, << "1","R","n","5" >>, R8, R8, R8, R8 >>, "w", {}, << "-" >>)

\* 4r3/8/8/8/4R3/8/8/4K3 w - -  (test_pinned_piece)
BoardPinned ==
    Fen(<< << "4","r","3" >>, R8, R8, R8, << "4","R","3" >>, R8, R8, << "4","K","3" >> >>,
        "w", {}, << "-" >>)

\* r3k2r/8/8/8/8/4n3/8/R3K2R w KQkq -  (test_castling)
BoardCastleKnight ==
    Fen(<< << "r","3","k","2","r" >>, R8, R8, R8, R8, << "4","n","3" >>, R8,
           << "R","3","K","2","R" >> >>,
        "w", {"K", "Q", "k", "q"}, << "-" >>)

\* r3k3/8/8/8/1R6/8/8/8 b q -  (test_castling)
BoardCastleBlack ==
    Fen(<< << "r","3","k","3" >>, R8, R8, R8, << "1","R","6" >>, R8, R8, R8 >>,
        "b", {"q"}, << "-" >>)

\* 8/8/8/8/8/8/6n1/R3K3 w Q -  (test_castling)
BoardRookCapture ==
    Fen(<< R8, R8, R8, R8, R8, R8, << "6","n","1" >>, << "R","3","K","3" >> >>,
        "w", {"Q"}, << "-" >>)

\* 8/5p2/8/4P3/8/8/8/8 w - -  (test_en_passant)
BoardEnPassant ==
    Fen(<< R8, << "5","p","2" >>, R8, << "4","P","3" >>, R8, R8, R8, R8 >>,
        "w", {}, << "-" >>)

\* 8/5p2/8/4P3/8/8/8/8 b - -  : the same pawns, Black to move
BoardEnPassantBlack ==
    Fen(<< R8, << "5","p","2" >>, R8, << "4","P","3" >>, R8, R8, R8, R8 >>,
        "b", {}, << "-" >>)

\* 4k3/8/8/8/8/8/4p3/4K2R w K -  : a black pawn attacks f1, which the king crosses
BoardPawnGuard ==
    Fen(<< << "4","k","3" >>, R8, R8, R8, R8, R8, << "4","p","3" >>, << "4","K","2","R" >> >>,
        "w", {"K"}, << "-" >>)

\* 4k3/8/8/8/8/8/8/4K3 w KQkq -  : castling rights without rooks
BoardNoRooks ==
    Fen(<< << "4","k","3" >>, R8, R8, R8, R8, R8, R8, << "4","K","3" >> >>,
        "w", {"K", "Q", "k", "q"}, << "-" >>)

\* 8/8/8/8/2K1k3/8/8/8 w KQkq -  : both kings off their home squares, rights set
BoardKingsFacing ==
    Fen(<< R8, R8, R8, R8, << "2","K","1","k","3" >>, R8, R8, R8 >>,
        "w", {"K", "Q", "k", "q"}, << "-" >>)

(***************************************************************************)
(* The state machine.  The board is the four fields of Board; `before` is  *)
(* the board as it was when the last make_move was called; op, arg and ret *)
(* are the last call, its move and what it returned; calls counts the      *)
(* make_move calls.                                                        *)
(***************************************************************************)
VARIABLES pieces, move_turn, castling_rights, en_passant_target,
          before, op, arg, ret, calls

board_vars == << pieces, move_turn, castling_rights, en_passant_target >>
vars == << pieces, move_turn, castling_rights, en_passant_target,
           before, op, arg, ret, calls >>

Self == Board(pieces, move_turn, castling_rights, en_passant_target)

\* how far outside the board the coordinates of a requested move may lie
OffBoard == 1
\* how many moves a behaviour applies
MaxPlies == 2
MaxCalls == 2

Coords == (0 - OffBoard) .. (BOARD_WIDTH - 1 + OffBoard)
Positions == {Position(f, r) : f \in Coords, r \in Coords}
Squares == {pos \in Positions : is_on_board(pos)}
NoMove == Move(Position(0, 0), Position(0, 0))

Range(seq) == {seq[i] : i \in 1..Len(seq)}

Load(b) ==
    /\ pieces = b.pieces
    /\ move_turn = b.move_turn
    /\ castling_rights = b.castling_rights
    /\ en_passant_target = b.en_passant_target
    /\ before = b
    /\ op = "new"
    /\ arg = NoMove
    /\ ret = "Ok"
    /\ calls = 0

\* board.make_move(move_)
Apply(m) ==
    \E r \in {make_move(Self, m)} :
    /\ pieces' = r.board.pieces
    /\ move_turn' = r.board.move_turn
    /\ castling_rights' = r.board.castling_rights
    /\ en_passant_target' = r.board.en_passant_target
    /\ before' = Self
    /\ op' = "make_move"
    /\ arg' = m
    /\ ret' = r.res
    /\ calls' = calls + 1

\* a caller that applies a move of the side to move that move_legal accepts
Play ==
    /\ calls < MaxPlies
    /\ \E m \in Range(all_legal_moves(Self)) : Apply(m)

PlayBoards == {starting_position, Pos3, BoardCastleBlack, BoardEnPassantBlack}

Init == \E b \in PlayBoards : Load(b)
Next == Play
Spec == Init /\ [][Next]_vars

\* the move-count exploration of lib.rs: play from the two boards of its test
PerftBoards == {starting_position, Pos3}
InitPerft == \E b \in PerftBoards : Load(b)
NextPerft == Play
SpecPerft == InitPerft /\ [][NextPerft]_vars

(***************************************************************************)
(* The legality predicates as pure functions: a board is loaded and one    *)
(* predicate is asked about one move.                                      *)
(***************************************************************************)
QueryBoards ==
    {starting_position, Pos3, BoardPseudo, BoardPinned, BoardCastleKnight,
     BoardCastleBlack, BoardRookCapture, BoardEnPassant, BoardPawnGuard,
     BoardNoRooks, BoardKingsFacing, Board_empty}

Moves == {Move(from, to) : from \in Positions, to \in Positions}

Answer(name, m, r) ==
    /\ op' = name
    /\ arg' = m
    /\ ret' = r
    /\ UNCHANGED << board_vars, before, calls >>

\* board.move_pseudo_legal(move_)
AskPseudoLegal ==
    /\ op = "new"
    /\ \E m \in Moves : Answer("move_pseudo_legal", m, move_pseudo_legal(Self, m, {}))

\* board.move_legal(move_)
AskLegal ==
    /\ op = "new"
    /\ \E m \in Moves : Answer("move_legal", m, move_legal(Self, m))

\* board.make_move(move_), validated or not
AskMakeMove ==
    /\ op = "new"
    /\ \E m \in Moves : Apply(m)

InitQuery == \E b \in QueryBoards : Load(b)
NextQuery == AskPseudoLegal \/ AskLegal \/ AskMakeMove
SpecQuery == InitQuery /\ [][NextQuery]_vars

(***************************************************************************)
(* make_move as the public method it is: any caller, any move, validated   *)
(* or not (the tests of board.rs apply moves no rule allows).              *)
(***************************************************************************)
RawBoards ==
    {BoardCastleKnight, BoardCastleBlack, BoardRookCapture, BoardEnPassant, Pos3}

\* how far from its source a requested move may land (the corners apart)
MaxStep == 2

KeySquares ==
    {Position(4, 0), Position(4, 7), Position(0, 0), Position(7, 0),
     Position(0, 7), Position(7, 7)}

RawFrom(b) ==
    {pos \in Squares : piece_at_pos(b, pos) # None}
        \cup KeySquares \cup {Position(0 - OffBoard, 0)}

RawTo(from) ==
    {to \in Positions : abs(to.file - from.file) <= MaxStep
                          /\ abs(to.rank - from.rank) <= MaxStep}
        \cup KeySquares

MakeMove ==
    /\ calls < MaxCalls
    /\ \E from \in RawFrom(Self) : \E to \in RawTo(from) : Apply(Move(from, to))

InitRaw == \E b \in RawBoards : Load(b)
NextRaw == MakeMove
SpecRaw == InitRaw /\ [][NextRaw]_vars

(***************************************************************************)
(* is_in_check and is_pos_attacked as pure functions, asked on boards of   *)
(* up to three pieces: a white king, one black piece of any type on any    *)
(* other square, and possibly a white bishop on a third square.            *)
(***************************************************************************)
\* Board::set on a board, for an on-board square
Placed(b, pos, piece) == [b EXCEPT !.pieces = set(b.pieces, pos, Some(piece)).pieces]

CheckKings == {Position(4, 0), Position(2, 7), Position(3, 3)}
CheckRights ==
    {CastlingRights(FALSE, FALSE, FALSE, FALSE), CastlingRights(FALSE, FALSE, TRUE, TRUE),
     CastlingRights_new}

\* a piece set on a square that is taken replaces the piece that stood there
KingAndPiece(rights, k, p, t) ==
    Placed(Placed(Board(Board_empty.pieces, "White", rights, None),
                  k, Piece("King", "White")),
           p, Piece(t, "Black"))

\* board.is_in_check(color)
AskInCheck ==
    /\ op = "new"
    /\ \E color \in PieceColor :
          /\ op' = "is_in_check"
          /\ arg' = color
          /\ ret' = is_in_check(Self, color)
          /\ UNCHANGED << board_vars, before, calls >>

InitCheck ==
    \E rights \in CheckRights, k \in CheckKings, p \in Squares, t \in PieceType :
        \/ Load(KingAndPiece(rights, k, p, t))
        \/ \E q \in Squares :
              Load(Placed(KingAndPiece(rights, k, p, t), q, Piece("Bishop", "White")))
NextCheck == AskInCheck
SpecCheck == InitCheck /\ [][NextCheck]_vars

(***************************************************************************)
(* move_pseudo_legal asked about the pawns: boards with pawns that are     *)
(* blocked, can capture, stand on their starting rank, or stand beside an  *)
(* en-passant target.                                                      *)
(***************************************************************************)
\* 4k3/2p1p3/3P4/8/8/3pp3/2P1P3/4K3 w - -
BoardPawns ==
    Fen(<< << "4","k","3" >>, << "2","p","1","p","3" >>, << "3","P","4" >>, R8, R8,
           << "3","p","p","3" >>, << "2","P","1","P","3" >>, << "4","K","3" >> >>,
        "w", {}, << "-" >>)

\* 8/8/8/4Pp2/8/8/8/8 w - f6  : the black pawn has just advanced f7-f5
BoardTargetF6 ==
    Fen(<< R8, R8, R8, << "4","P","p","2" >>, R8, R8, R8, R8 >>, "w", {}, << "f","6" >>)

\* 8/8/8/8/3pP3/8/8/8 b - e3  : the white pawn has just advanced e2-e4
BoardTargetE3 ==
    Fen(<< R8, R8, R8, R8, << "3","p","P","3" >>, R8, R8, R8 >>, "b", {}, << "e","3" >>)

PawnBoards == {starting_position, Pos3, BoardPawns, BoardTargetF6, BoardTargetE3}

InitPawn == \E b \in PawnBoards : Load(b)
NextPawn == AskPseudoLegal
SpecPawn == InitPawn /\ [][NextPawn]_vars

(***************************************************************************)
(* legal_moves as a pure function: a board is loaded and the legal         *)
(* destinations of one square are asked for.                               *)
(***************************************************************************)
\* the candidates legal_moves filters: knight moves, then the moves along the rays
candidate_moves(b, pos) == knight_moves(pos) \o sliding_moves(b, pos)

\* a call of legal_moves: whether it returns (every move_legal call of its
\* filter does) and the Vec it returns
legal_moves_call(b, pos) ==
    IF piece_at_pos(b, pos) # None
          /\ \E m \in Range(candidate_moves(b, pos)) : move_legal(b, m) = "overflow"
    THEN [returns |-> FALSE, moves |-> << >>]
    ELSE [returns |-> TRUE, moves |-> legal_moves(b, pos)]

MovesBoards == QueryBoards \cup {BoardPawns, BoardTargetF6, BoardTargetE3}

\* board.legal_moves(pos)
AskLegalMoves ==
    /\ op = "new"
    /\ \E pos \in Positions :
          /\ op' = "legal_moves"
          /\ arg' = pos
          /\ ret' = legal_moves_call(Self, pos)
          /\ UNCHANGED << board_vars, before, calls >>

InitMoves == \E b \in MovesBoards : Load(b)
NextMoves == AskLegalMoves
SpecMoves == InitMoves /\ [][NextMoves]_vars

(***************************************************************************)
(* is_pos_attacked as a pure function: a board is loaded and one square is *)
(* asked about for one colour.                                             *)
(***************************************************************************)
\* 4k3/4P3/8/8/8/8/8/8 b q -  : a white pawn stands in front of the black king
BoardKingBehindPawn ==
    Fen(<< << "4","k","3" >>, << "4","P","3" >>, R8, R8, R8, R8, R8, R8 >>,
        "b", {"q"}, << "-" >>)

AttackBoards == QueryBoards \cup {BoardPawns, BoardKingBehindPawn}

\* board.is_pos_attacked(square_pos, attacking_color)
AskAttacked ==
    /\ op = "new"
    /\ \E s \in Squares, c \in PieceColor :
          /\ op' = "is_pos_attacked"
          /\ arg' = [square_pos |-> s, attacking_color |-> c]
          /\ ret' = is_pos_attacked(Self, s, c, {})
          /\ UNCHANGED << board_vars, before, calls >>

InitAttack == \E b \in AttackBoards : Load(b)
NextAttack == AskAttacked
SpecAttack == InitAttack /\ [][NextAttack]_vars

(***************************************************************************)
(* Legal play on boards where castling rights are at stake: the starting   *)
(* position and boards of kings and rooks on their home squares.           *)
(***************************************************************************)
\* r3k2r/8/8/8/8/8/8/R3K2R w KQkq -  : the rooks face each other on open files
BoardRooksFacing ==
    Fen(<< << "r","3","k","2","r" >>, R8, R8, R8, R8, R8, R8, << "R","3","K","2","R" >> >>,
        "w", {"K", "Q", "k", "q"}, << "-" >>)

CastleBoards == {starting_position, BoardCastleKnight, BoardCastleBlack, BoardRooksFacing}

\* the number of moves played from a board of CastleBoards
MaxCastlePlies == 3

InitCastle == \E b \in CastleBoards : Load(b)

\* a caller that applies any move move_legal accepts for a piece of the side to
\* move, whether or not legal_moves would have listed it
PlayAccepted ==
    /\ calls < MaxCastlePlies
    /\ \E from \in Squares, to \in Squares :
        /\ piece_at_pos(Self, from) # None
        /\ piece_at_pos(Self, from)[1].color = move_turn
        /\ move_legal(Self, Move(from, to)) = "true"
        /\ Apply(Move(from, to))

NextCastle == PlayAccepted
SpecCastle == InitCastle /\ [][NextCastle]_vars

(***************************************************************************)
(* Play of accepted moves from boards with one king of each colour, the    *)
(* side that has just moved not in check, and every castling right backed  *)
(* by its king and rook at home.                                           *)
(***************************************************************************)
\* 4k3/8/8/8/8/4P3/8/R3K3 w Q -  : a white pawn two squares ahead of the king
BoardPawnAhead ==
    Fen(<< << "4","k","3" >>, R8, R8, R8, R8, << "4","P","3" >>, R8, << "R","3","K","3" >> >>,
        "w", {"Q"}, << "-" >>)

\* 8/8/8/8/8/4k3/4P3/R3K3 w Q -  : the black king two squares ahead, a pawn between
BoardKingAhead ==
    Fen(<< R8, R8, R8, R8, R8, << "4","k","3" >>, << "4","P","3" >>, << "R","3","K","3" >> >>,
        "w", {"Q"}, << "-" >>)

KingBoards == CastleBoards \cup {BoardPawnAhead, BoardKingAhead}

InitKings == \E b \in KingBoards : Load(b)
NextKings == PlayAccepted
SpecKings == InitKings /\ [][NextKings]_vars

(***************************************************************************)
(* The claims                                                              *)
(***************************************************************************)
IsPiece(b, pos, t) == piece_at_pos(b, pos) # None /\ piece_at_pos(b, pos)[1].type_ = t
ColorAt(b, pos) == piece_at_pos(b, pos)[1].color
Asked(name) == op = name /\ ret \in {"true", "false"}

\* the king moves two files along its own rank
TwoFiles(m) == m.to.rank = m.from.rank /\ abs(m.to.file - m.from.file) = 2
Midway(m) == Position((m.from.file + m.to.file) \div 2, (m.from.rank + m.to.rank) \div 2)

\* C1: move_legal is true exactly when the move is pseudo-legal and, once it is
\* applied, the king of the colour of the piece that moved is not in check.
C1_LegalIffMoverKingSafe ==
    (Asked("move_legal") /\ piece_at_pos(Self, arg.from) # None) =>
        ((ret = "true") <=>
            /\ move_pseudo_legal(Self, arg, {}) = "true"
            /\ is_in_check(make_move(Self, arg).board, ColorAt(Self, arg.from)) = "false")

\* C2: a king move of distance 2 is pseudo-legal only as a castling move: two
\* files along the king's own rank, the right set, over and onto empty squares.
C2_KingTwoSquaresOnlyCastling ==
    (Asked("move_pseudo_legal") /\ ret = "true" /\ IsPiece(Self, arg.from, "King")
        /\ max(abs(arg.to.file - arg.from.file), abs(arg.to.rank - arg.from.rank)) = 2) =>
        /\ TwoFiles(arg)
        /\ can_castle(castling_rights, ColorAt(Self, arg.from), arg.to.file > arg.from.file)
        /\ piece_at_pos(Self, Midway(arg)) = None
        /\ piece_at_pos(Self, arg.to) = None

\* the squares strictly between two squares of a line
Between(from, to) ==
    {pos \in Squares :
        /\ pos # from /\ pos # to
        /\ shape(Move(from, to)) # None /\ shape(Move(from, to))[1].kind # "Knight"
        /\ shape(Move(from, pos)) # None /\ shape(Move(from, pos))[1].kind # "Knight"
        /\ signum(pos.file - from.file) = signum(to.file - from.file)
        /\ signum(pos.rank - from.rank) = signum(to.rank - from.rank)
        /\ max(abs(pos.file - from.file), abs(pos.rank - from.rank))
             < max(abs(to.file - from.file), abs(to.rank - from.rank))}

\* the piece on `from` could capture on `sq` by the rules of chess
CouldCapture(b, from, sq) ==
    LET p == piece_at_pos(b, from)[1]
        df == abs(sq.file - from.file)
        dr == abs(sq.rank - from.rank)
        straight == (df = 0 \/ dr = 0) /\ df + dr > 0
        diagonal == df = dr /\ df > 0
        open == \A pos \in Between(from, sq) : piece_at_pos(b, pos) = None
    IN  CASE p.type_ = "Knight" -> (df = 2 /\ dr = 1) \/ (df = 1 /\ dr = 2)
          [] p.type_ = "King" -> max(df, dr) = 1
          [] p.type_ = "Pawn" ->
                df = 1 /\ sq.rank - from.rank = (IF p.color = "White" THEN 1 ELSE -1)
          [] p.type_ = "Rook" -> straight /\ open
          [] p.type_ = "Bishop" -> diagonal /\ open
          [] p.type_ = "Queen" -> (straight \/ diagonal) /\ open

Attacked(b, sq, color) ==
    \E from \in Squares :
        /\ piece_at_pos(b, from) # None
        /\ ColorAt(b, from) = color
        /\ CouldCapture(b, from, sq)

\* C3: a castling move is not legal when the king's start, crossed or landing
\* square is attacked by the opposing colour.
C3_NoCastlingThroughAttack ==
    (Asked("move_legal") /\ IsPiece(Self, arg.from, "King") /\ TwoFiles(arg)
        /\ \E sq \in {arg.from, Midway(arg), arg.to} :
              Attacked(Self, sq, opposite(ColorAt(Self, arg.from)))) =>
        ret # "true"

\* C4: a castling move is pseudo-legal only if the right is set, a rook of the
\* mover's colour stands on the home corner of that side, and every square
\* between the king and that corner is empty.
C4_CastlingNeedsRightRookPath ==
    (Asked("move_pseudo_legal") /\ ret = "true" /\ IsPiece(Self, arg.from, "King")
        /\ TwoFiles(arg)) =>
        LET kingside == arg.to.file > arg.from.file
            corner == Position(IF kingside THEN 7 ELSE 0, arg.from.rank)
        IN  /\ can_castle(castling_rights, ColorAt(Self, arg.from), kingside)
            /\ piece_at_pos(Self, corner) = Some(Piece("Rook", ColorAt(Self, arg.from)))
            /\ \A pos \in Between(arg.from, corner) : piece_at_pos(Self, pos) = None

\* C9: move_pseudo_legal and move_legal return a boolean for every board and
\* every move: the mutual calls always bottom out.
C9_PredicatesTerminate ==
    op \in {"move_pseudo_legal", "move_legal"} => ret \in {"true", "false"}

Forward(color) == IF color = "White" THEN 1 ELSE -1

\* a pawn of board b moves one square diagonally forward with m
PawnDiagonal(b, m) ==
    /\ is_on_board(m.from) /\ IsPiece(b, m.from, "Pawn")
    /\ abs(m.to.file - m.from.file) = 1
    /\ m.to.rank - m.from.rank = Forward(ColorAt(b, m.from))

\* the board with the pawn on `beside` removed and the pawn of m.from on m.to
EnPassantTaken(b, m, beside) ==
    [b.pieces EXCEPT ![to_index(beside)] = None,
                     ![to_index(m.to)] = b.pieces[to_index(m.from)],
                     ![to_index(m.from)] = None]

\* C5: right after a pawn's two-square advance, every opposing pawn's move one
\* square diagonally forward onto the en-passant target is pseudo-legal and an
\* en-passant capture whose victim is the pawn that advanced; and when such a
\* move has been applied, make_move has removed exactly the pawn beside the
\* target (destination's file, capturer's starting rank), the capturer stands on
\* the target and its start square is empty.
C5_EnPassantCapture ==
    /\ (op = "make_move" /\ en_passant_target # None) =>
          \A from \in Squares :
              (PawnDiagonal(Self, Move(from, en_passant_target[1]))
                  /\ ColorAt(Self, from) # ColorAt(Self, arg.to)) =>
                  /\ move_pseudo_legal(Self, Move(from, en_passant_target[1]), {}) = "true"
                  /\ is_move_en_passant(Self, Move(from, en_passant_target[1]))
                  /\ arg.to = Position(en_passant_target[1].file, from.rank)
    /\ (op = "make_move" /\ before.en_passant_target = Some(arg.to)
            /\ PawnDiagonal(before, arg)) =>
          /\ move_pseudo_legal(before, arg, {}) = "true"
          /\ is_move_en_passant(before, arg)
          /\ ret = "Ok"
          /\ IsPiece(before, Position(arg.to.file, arg.from.rank), "Pawn")
          /\ ColorAt(before, Position(arg.to.file, arg.from.rank)) # ColorAt(before, arg.from)
          /\ pieces = EnPassantTaken(before, arg, Position(arg.to.file, arg.from.rank))

\* an en-passant capture has been played as the second move
C5_EnPassantPlayed ==
    /\ op = "make_move" /\ calls = 2
    /\ before.en_passant_target = Some(arg.to)
    /\ PawnDiagonal(before, arg)
    /\ IsPiece(Self, arg.to, "Pawn")
    /\ piece_at_pos(Self, arg.from) = None
    /\ piece_at_pos(Self, Position(arg.to.file, arg.from.rank)) = None

\* the move moves a pawn of board b Straight at distance 2
PawnTwoStraight(b, m) ==
    /\ is_on_board(m.from) /\ IsPiece(b, m.from, "Pawn")
    /\ shape(m) # None /\ shape(m)[1].kind = "Straight" /\ shape(m)[1].data.distance = 2

Flags == {"white_kingside", "white_queenside", "black_kingside", "black_queenside"}
FlagColor(f) == IF f \in {"white_kingside", "white_queenside"} THEN "White" ELSE "Black"
FlagKingside(f) == f \in {"white_kingside", "black_kingside"}
KingHome(f) == Position(4, IF FlagColor(f) = "White" THEN 0 ELSE 7)
Corner(f) ==
    Position(IF FlagKingside(f) THEN 7 ELSE 0, IF FlagColor(f) = "White" THEN 0 ELSE 7)

\* the moves of a king of the flag's colour two files toward the flag's side
CastlingMoves(b, f) ==
    {Move(from, Position(from.file + (IF FlagKingside(f) THEN 2 ELSE -2), from.rank)) :
        from \in {pos \in Squares : piece_at_pos(b, pos) = Some(Piece("King", FlagColor(f)))}}

C10_MakeMoveOkWhenValid ==
    op = "make_move" =>
        /\ move_pseudo_legal(before, arg, {}) = "true" => ret = "Ok"
        /\ ret = "Err" => ~move_is_on_board(arg)

\* a pseudo-legal castling has been applied: rook and king both relocated
C10_CastlingApplied ==
    /\ op = "make_move" /\ ret = "Ok"
    /\ move_pseudo_legal(before, arg, {}) = "true"
    /\ TwoFiles(arg) /\ get_castling(before, arg) # None
    /\ before.pieces # pieces

(***************************************************************************)
(* Counting move sequences.  A level is the bag of the boards reached by   *)
(* the sequences of some length: a board has one copy for each sequence    *)
(* that ends in it.  A board is kept with the set of its occupied squares  *)
(* in front of it.                                                         *)
(***************************************************************************)
Tagged(b) == << {i \in Indices : b.pieces[i] # None}, b >>

\* each board of the level with its legal moves and its number of copies
Expanded(level) == {<< tb, all_legal_moves(tb[2]), level[tb] >> : tb \in DOMAIN level}

Widest(expanded) ==
    CHOOSE n \in {Len(e[2]) : e \in expanded} : \A e \in expanded : Len(e[2]) <= n

\* one more move: a board of the level and the index of one of its moves
Steps(expanded) ==
    {p \in expanded \X (1..Widest(expanded)) : p[2] <= Len(p[1][2])}

Arrival(p) == Tagged(make_move(p[1][1][2], p[1][2][p[2]]).board)

\* the level one move further
NextLevel(expanded) == BagOfAll(Arrival, [p \in Steps(expanded) |-> p[1][3]])

\* the number of sequences that end with a move of a board of the level
Extensions(expanded) ==
    BagCardinality([e \in {x \in expanded : Len(x[2]) > 0} |-> e[3] * Len(e[2])])

RECURSIVE SequencesFrom(_, _)
SequencesFrom(expanded, n) ==
    IF n = 1 THEN << Extensions(expanded) >>
    ELSE << Extensions(expanded) >>
           \o SequencesFrom(Expanded(NextLevel(expanded)), n - 1)

\* the numbers of sequences of 1, 2, ... n successive legal moves from board b
Sequences(b, n) == SequencesFrom(Expanded(SetToBag({Tagged(b)})), n)

\* C8: the number of sequences of n successive legal moves is 20, 400, 8902
\* for n = 1, 2, 3 from the starting position and 14, 191, 2812, 43238, 674624
\* for n = 1 to 5 from 8/2p5/3p4/KP5r/1R3p1k/8/4P1P1/8 w - -; perft of lib.rs
\* returns these numbers (evaluated as the code does up to n = 3).
C8_MoveCounts ==
    /\ (op = "new" /\ Self = starting_position) =>
          /\ perft(Self, 1) = 20
          /\ perft(Self, 2) = 400
          /\ perft(Self, 3) = 8902
          /\ Sequences(Self, 3) = << 20, 400, 8902 >>
    /\ (op = "new" /\ Self = Pos3) =>
          /\ perft(Self, 1) = 14
          /\ perft(Self, 2) = 191
          /\ perft(Self, 3) = 2812
          /\ Sequences(Self, 5) = << 14, 191, 2812, 43238, 674624 >>

\* two successive legal moves have been played from the second board: one of
\* the 191 sequences of length 2
C8_SequencePlayed ==
    /\ calls = 2 /\ op = "make_move" /\ ret = "Ok"
    /\ move_turn = "White"
    /\ castling_rights = Pos3.castling_rights
    /\ Cardinality({i \in Indices : pieces[i] # None}) >= 7
    /\ \E i \in Indices : pieces[i] = Some(Piece("King", "White"))
    /\ pieces[to_index(Position(0, 4))] = None


\* C11: for every board and move, move_legal true implies move_pseudo_legal
\* true.
C11_LegalImpliesPseudoLegal ==
    (op = "move_legal" /\ ret = "true") => move_pseudo_legal(Self, arg, {}) = "true"

\* move_legal has accepted the pinned rook's move along the pin line
C11_LegalAlongPin ==
    /\ op = "move_legal" /\ ret = "true"
    /\ Self = BoardPinned
    /\ arg = Move(Position(4, 3), Position(4, 5))


\* the board after a castling of the king on m.from: king on m.to, the rook of
\* that side on the f-file or the d-file of the rank, home square and corner empty
Castled(b, m) ==
    LET kingside == m.to.file > m.from.file
        color == ColorAt(b, m.from)
        corner == Position(IF kingside THEN 7 ELSE 0, m.from.rank)
        rook_to == Position(IF kingside THEN 5 ELSE 3, m.from.rank)
    IN  [i \in Indices |->
            IF i = to_index(m.to) THEN Some(Piece("King", color))
            ELSE IF i = to_index(rook_to) THEN Some(Piece("Rook", color))
            ELSE IF i = to_index(m.from) \/ i = to_index(corner) THEN None
            ELSE b.pieces[i]]

\* C12: make_move of a legal castling move leaves the king on its destination
\* (g-file kingside, c-file queenside), the rook of that side on the f-file or
\* d-file of the same rank, the king's home square and the rook's home corner
\* empty, and every other square as it was.
C12_CastlingRelocatesKingAndRook ==
    (op = "make_move" /\ is_on_board(arg.from) /\ IsPiece(before, arg.from, "King")
        /\ TwoFiles(arg) /\ move_legal(before, arg) = "true") =>
        /\ ret = "Ok"
        /\ arg.to.file = (IF arg.to.file > arg.from.file THEN 6 ELSE 2)
        /\ pieces = Castled(before, arg)


KingSquares(b, color) == {pos \in Squares : piece_at_pos(b, pos) = Some(Piece("King", color))}

\* C13: is_in_check(color) is false on every board without a king of that
\* colour; with such a king on the board it is true exactly when a piece of
\* the opposing colour attacks the king's square (stated for the calls that
\* return).
C13_CheckIffKingAttacked ==
    Asked("is_in_check") =>
        IF KingSquares(Self, arg) = {} THEN ret = "false"
        ELSE \A k \in KingSquares(Self, arg) :
                ret = (IF Attacked(Self, k, opposite(arg)) THEN "true" ELSE "false")


\* a king's Straight move of distance 2: the moves the castling check decides
CastlingShaped(b, m) ==
    /\ IsPiece(b, m.from, "King")
    /\ shape(m) # None /\ shape(m)[1].kind = "Straight" /\ shape(m)[1].data.distance = 2

\* C14: a move that is not a king's Straight distance-2 move is pseudo-legal
\* exactly when both squares are on the board, a piece stands on from, the
\* shape is valid and allowed for the piece, the pawn rules hold for a pawn,
\* every square strictly between from and to is empty, and the destination is
\* empty or holds a piece of the opposite colour.
C14_PseudoLegalIffShapeAndPath ==
    (Asked("move_pseudo_legal") /\ ~CastlingShaped(Self, arg)) =>
        ((ret = "true") <=>
            /\ is_on_board(arg.from) /\ is_on_board(arg.to)
            /\ piece_at_pos(Self, arg.from) # None
            /\ shape(arg) # None
            /\ shape_allowed(piece_at_pos(Self, arg.from)[1], shape(arg)[1])
            /\ IsPiece(Self, arg.from, "Pawn") =>
                  validate_pawn_rules(piece_at_pos(Self, arg.from)[1], arg,
                                      is_move_capture(Self, arg))
            /\ \A pos \in Between(arg.from, arg.to) : piece_at_pos(Self, pos) = None
            /\ \/ piece_at_pos(Self, arg.to) = None
               \/ ColorAt(Self, arg.to) # ColorAt(Self, arg.from))

\* the rook's move b5 to h5 has been refused: the knight on c5 stands between
C14_RookBlockedByKnight ==
    /\ op = "move_pseudo_legal" /\ ret = "false"
    /\ Self = BoardPseudo
    /\ arg = Move(Position(1, 4), Position(7, 4))
    /\ piece_at_pos(Self, Position(2, 4)) # None
    /\ Position(2, 4) \in Between(arg.from, arg.to)


\* the pawn of board b on m.from moves n squares up its file with m
PawnAdvance(b, m, n) ==
    /\ m.to.file = m.from.file
    /\ m.to.rank - m.from.rank = n * Forward(ColorAt(b, m.from))

\* C15: every pseudo-legal pawn move is one square straight forward onto an
\* empty square, or two squares straight forward from the starting rank (1 for
\* White, 6 for Black) over an empty square onto an empty square, or one square
\* diagonally forward onto a square that holds an opposing piece or is the
\* en-passant target.
C15_PawnMoves ==
    (op = "move_pseudo_legal" /\ ret = "true" /\ IsPiece(Self, arg.from, "Pawn")) =>
        \/ /\ PawnAdvance(Self, arg, 1)
           /\ piece_at_pos(Self, arg.to) = None
        \/ /\ PawnAdvance(Self, arg, 2)
           /\ arg.from.rank = (IF ColorAt(Self, arg.from) = "White" THEN 1 ELSE 6)
           /\ piece_at_pos(Self, Midway(arg)) = None
           /\ piece_at_pos(Self, arg.to) = None
        \/ /\ PawnDiagonal(Self, arg)
           /\ \/ /\ piece_at_pos(Self, arg.to) # None
                 /\ ColorAt(Self, arg.to) # ColorAt(Self, arg.from)
              \/ en_passant_target = Some(arg.to)

\* the white pawn's diagonal move onto the empty en-passant target is accepted
C15_OntoEnPassantTarget ==
    /\ op = "move_pseudo_legal" /\ ret = "true"
    /\ IsPiece(Self, arg.from, "Pawn") /\ PawnDiagonal(Self, arg)
    /\ en_passant_target = Some(arg.to)
    /\ piece_at_pos(Self, arg.to) = None


\* C16: legal_moves(pos) returns, without duplicates, exactly the destinations
\* for which move_legal is true, and the empty list when pos is empty or off
\* the board.
C16_LegalMovesExact ==
    op = "legal_moves" =>
        /\ ret.returns
        /\ \A i, j \in 1..Len(ret.moves) : ret.moves[i] = ret.moves[j] => i = j
        /\ Range(ret.moves) = {to \in Positions : move_legal(Self, Move(arg, to)) = "true"}
        /\ piece_at_pos(Self, arg) = None => ret.moves = << >>


\* the squares from which a piece of the colour can pseudo-legally move to sq
MoversTo(b, sq, color) ==
    {p \in Squares :
        /\ piece_at_pos(b, p) # None
        /\ ColorAt(b, p) = color
        /\ move_pseudo_legal(b, Move(p, sq), {}) = "true"}

\* C17: is_pos_attacked(s, c) is true exactly when some piece of colour c has a
\* pseudo-legal move to s (stated for the calls that return).
C17_AttackedIffSomeMover ==
    Asked("is_pos_attacked") =>
        ((ret = "true") <=> MoversTo(Self, arg.square_pos, arg.attacking_color) # {})


\* C18: on every board reached by legal play, whenever a castling-right flag is
\* set the king of that colour stands on its home square and a rook of that
\* colour on the flag's home corner.
C18_RightsImplyKingAndRookHome ==
    \A f \in Flags :
        castling_rights[f] =>
            /\ piece_at_pos(Self, KingHome(f)) = Some(Piece("King", FlagColor(f)))
            /\ piece_at_pos(Self, Corner(f)) = Some(Piece("Rook", FlagColor(f)))

\* the white rook has taken the rook on a8: both queenside rights are gone,
\* both kingside rights remain with kings and rooks at home
C18_RookTakesRookOnCorner ==
    /\ op = "make_move" /\ ret = "Ok" /\ calls = 1
    /\ arg = Move(Position(0, 0), Position(0, 7))
    /\ before.pieces[to_index(arg.to)] = Some(Piece("Rook", "Black"))
    /\ before.castling_rights["black_queenside"] /\ ~castling_rights["black_queenside"]
    /\ before.castling_rights["white_queenside"] /\ ~castling_rights["white_queenside"]
    /\ castling_rights["black_kingside"] /\ castling_rights["white_kingside"]


PiecesOf(b, color) == {sq \in Squares : piece_at_pos(b, sq) # None /\ ColorAt(b, sq) = color}
OneKingEach(b) == \A color \in PieceColor : Cardinality(KingSquares(b, color)) = 1
RightsBacked(b) ==
    \A f \in Flags :
        b.castling_rights[f] =>
            /\ piece_at_pos(b, KingHome(f)) = Some(Piece("King", FlagColor(f)))
            /\ piece_at_pos(b, Corner(f)) = Some(Piece("Rook", FlagColor(f)))
WellFormed(b) ==
    /\ OneKingEach(b)
    /\ RightsBacked(b)
    /\ is_in_check(b, opposite(b.move_turn)) = "false"

\* C19: an accepted move of the side to move, applied to a board with one king
\* of each colour, the side not to move not in check and every castling right
\* backed by king and rook at home, leaves one king of each colour and removes
\* no piece of the mover's own colour.
C19_MoveKeepsKingsAndOwnPieces ==
    (op = "make_move" /\ ret = "Ok" /\ WellFormed(before)) =>
        /\ OneKingEach(Self)
        /\ Cardinality(PiecesOf(Self, before.move_turn))
               = Cardinality(PiecesOf(before, before.move_turn))

====
